---- MODULE Spec2Model ----
(***************************************************************************)
(* Model of homework.py: the fitness-tracker training hierarchy            *)
(* (Training, Running, SportsWalking, Swimming), the dispatch function     *)
(* read_package, and InfoMessage with its rendered message.                *)
(*                                                                         *)
(* Numbers are exact rationals [n, d] in lowest terms with d > 0; Python   *)
(* floats are abstracted to the rational they approximate.  A non-numeric  *)
(* argument is the Python str 'abc', the record [str |-> "abc"].  Text is  *)
(* a sequence of Unicode code points.                                      *)
(***************************************************************************)
EXTENDS Integers, Sequences, FiniteSets, TLC

VARIABLES pc, call, workout_type, data, training, ret, info, message, error,
          printed, shows

vars == <<pc, call, workout_type, data, training, ret, info, message, error,
          printed, shows>>

(* ------------------------- bounds of the model ------------------------- *)

\* longest argument list handed to read_package (Swimming takes five)
MaxArgs == 6

\* records the loop over packages prints before the model stops it
MaxRecords == 2

\* calls of show_training_info on one object before the model moves on
MaxShows == 2

(* --------------------------- exact arithmetic -------------------------- *)

Abs(i) == IF i < 0 THEN -i ELSE i

RECURSIVE GCD(_, _)
GCD(a, b) == IF b = 0 THEN a ELSE GCD(b, a % b)

Rat(n, d) ==
    LET g == GCD(Abs(n), Abs(d))
        s == IF d < 0 THEN -1 ELSE 1
    IN  [n |-> (s * n) \div g, d |-> (s * d) \div g]

Num(i) == [n |-> i, d |-> 1]

Add(a, b) == Rat(a.n * b.d + b.n * a.d, a.d * b.d)
Sub(a, b) == Rat(a.n * b.d - b.n * a.d, a.d * b.d)
Mul(a, b) == Rat(a.n * b.n, a.d * b.d)
TrueDiv(a, b) == Rat(a.n * b.d, a.d * b.n)
\* true division where the floor is meant
FloorDiv_true(a, b) == TrueDiv(a, b)
\* Python's // on numbers: the floor of the quotient
FloorDiv(a, b) ==
    LET q == Rat(a.n * b.d, a.d * b.n) IN Num(q.n \div q.d)

(* ------------------------------- values -------------------------------- *)

IsNum(v) == "n" \in DOMAIN v
NonNumeric == [str |-> "abc"]

None == [cls |-> "None"]
NoError == [type |-> "None"]
NoInfo == [training_type |-> "None"]

\* the outcome of a call: a returned value or a raised exception
Return(v) == [exc |-> "None", arg |-> "", val |-> v]
Raise(e) == [exc |-> e, arg |-> "", val |-> Num(0)]
\* KeyError carries the key that was looked up
RaiseKeyError(key) == [exc |-> "KeyError", arg |-> key, val |-> Num(0)]

(* ------------------------------ Training ------------------------------- *)

M_IN_KM == 1000

min_in_hour == 60

\* LEN_STEP without the override in Swimming
LEN_STEP_base_only(cls) == Rat(65, 100)

\* class attribute LEN_STEP, overridden by Swimming
LEN_STEP(cls) == IF cls = "Swimming" THEN Rat(138, 100) ELSE Rat(65, 100)

\* what the default object.__str__ of the base class yields
Training_str(cls) == IF cls = "Training" THEN "<Training object>" ELSE cls

Training_init(cls, args) ==
    [cls |-> cls, action |-> args[1], duration |-> args[2], weight |-> args[3]]

SportsWalking_init(cls, args) ==
    [cls |-> cls, action |-> args[1], duration |-> args[2], weight |-> args[3],
     height |-> args[4]]

\* the two pool arguments stored in each other's field
Swimming_init_swapped(cls, args) ==
    [cls |-> cls, action |-> args[1], duration |-> args[2], weight |-> args[3],
     length_pool |-> args[5], count_pool |-> args[4]]

Swimming_init(cls, args) ==
    [cls |-> cls, action |-> args[1], duration |-> args[2], weight |-> args[3],
     length_pool |-> args[4], count_pool |-> args[5]]

\* number of positional parameters of each class's __init__ (self excluded)
Arity(cls) ==
    CASE cls = "SportsWalking" -> 4
      [] cls = "Swimming" -> 5
      [] OTHER -> 3

\* a constructor that swallows surplus positional arguments
Construct_surplus_ignored(cls, args) ==
    IF Len(args) < Arity(cls) THEN Raise("TypeError")
    ELSE Return(CASE cls = "SportsWalking" -> SportsWalking_init(cls, args)
                  [] cls = "Swimming" -> Swimming_init(cls, args)
                  [] OTHER -> Training_init(cls, args))

\* cls(*args): binding the positional arguments raises TypeError on a wrong
\* count; the bodies only assign, so the values are stored as they come
Construct(cls, args) ==
    IF Len(args) # Arity(cls) THEN Raise("TypeError")
    ELSE Return(CASE cls = "SportsWalking" -> SportsWalking_init(cls, args)
                  [] cls = "Swimming" -> Swimming_init(cls, args)
                  [] OTHER -> Training_init(cls, args))

get_distance(self) ==
    IF ~IsNum(self.action) THEN Raise("TypeError")
    ELSE Return(TrueDiv(Mul(self.action, LEN_STEP(self.cls)), Num(M_IN_KM)))

Training_get_mean_speed(self) ==
    LET distance == get_distance(self)
    IN  IF distance.exc # "None" THEN distance
        ELSE IF ~IsNum(self.duration) THEN Raise("TypeError")
        ELSE IF self.duration.n = 0 THEN Raise("ZeroDivisionError")
        ELSE Return(TrueDiv(distance.val, self.duration))

Training_get_spent_calories(self) == Return(Num(0))

(* ------------------------------- Running ------------------------------- *)

\* the formula with the second coefficient added instead of subtracted
Running_get_spent_calories_sign(self) ==
    LET coeff_calorie_1 == Num(18)
        coeff_calorie_2 == Num(20)
        mean_speed == Training_get_mean_speed(self)
    IN  IF mean_speed.exc # "None" THEN mean_speed
        ELSE IF ~IsNum(self.weight) THEN Raise("TypeError")
        ELSE Return(Mul(TrueDiv(Mul(Add(Mul(coeff_calorie_1, mean_speed.val),
                                        coeff_calorie_2),
                                    self.weight),
                                Num(M_IN_KM)),
                        Mul(self.duration, Num(min_in_hour))))

Running_get_spent_calories(self) ==
    LET coeff_calorie_1 == Num(18)
        coeff_calorie_2 == Num(20)
        mean_speed == Training_get_mean_speed(self)
    IN  IF mean_speed.exc # "None" THEN mean_speed
        ELSE IF ~IsNum(self.weight) THEN Raise("TypeError")
        ELSE Return(Mul(TrueDiv(Mul(Sub(Mul(coeff_calorie_1, mean_speed.val),
                                        coeff_calorie_2),
                                    self.weight),
                                Num(M_IN_KM)),
                        Mul(self.duration, Num(min_in_hour))))

(* ---------------------------- SportsWalking ---------------------------- *)

SportsWalking_get_spent_calories(self) ==
    LET coeff_calorie_1 == Rat(35, 1000)
        coeff_calorie_2 == Rat(29, 1000)
        mean_speed == Training_get_mean_speed(self)
    IN  IF mean_speed.exc # "None" THEN mean_speed
        ELSE IF ~IsNum(self.weight) THEN Raise("TypeError")
        ELSE IF ~IsNum(self.height) THEN Raise("TypeError")
        ELSE IF self.height.n = 0 THEN Raise("ZeroDivisionError")
        ELSE Return(Mul(Mul(Add(Mul(coeff_calorie_1, self.weight),
                                Mul(Mul(FloorDiv(Mul(mean_speed.val, mean_speed.val),
                                                 self.height),
                                        coeff_calorie_2),
                                    self.weight)),
                            self.duration),
                        Num(min_in_hour)))

(* ------------------------------ Swimming ------------------------------- *)

\* the speed taken from the stroke distance, as the base class does
Swimming_get_mean_speed_inherited(self) == Training_get_mean_speed(self)

\* str * int repeats the str, and the str / M_IN_KM that follows raises
\* TypeError: any non-numeric pool field ends in TypeError before the
\* division by duration is reached
Swimming_get_mean_speed(self) ==
    IF ~IsNum(self.length_pool) \/ ~IsNum(self.count_pool) THEN Raise("TypeError")
    ELSE IF ~IsNum(self.duration) THEN Raise("TypeError")
    ELSE IF self.duration.n = 0 THEN Raise("ZeroDivisionError")
    ELSE Return(TrueDiv(TrueDiv(Mul(self.length_pool, self.count_pool),
                                Num(M_IN_KM)),
                        self.duration))

Swimming_get_spent_calories(self) ==
    LET coeff_calorie_1 == Rat(11, 10)
        coeff_calorie_2 == Num(2)
        mean_speed == Swimming_get_mean_speed(self)
    IN  IF mean_speed.exc # "None" THEN mean_speed
        ELSE IF ~IsNum(self.weight) THEN Raise("TypeError")
        ELSE Return(Mul(Mul(Add(mean_speed.val, coeff_calorie_1), coeff_calorie_2),
                        self.weight))

(* --------------------------- method dispatch --------------------------- *)

get_mean_speed(self) ==
    IF self.cls = "Swimming" THEN Swimming_get_mean_speed(self)
    ELSE Training_get_mean_speed(self)

get_spent_calories(self) ==
    CASE self.cls = "Running" -> Running_get_spent_calories(self)
      [] self.cls = "SportsWalking" -> SportsWalking_get_spent_calories(self)
      [] self.cls = "Swimming" -> Swimming_get_spent_calories(self)
      [] OTHER -> Training_get_spent_calories(self)

InfoMessage_init(training_type, duration, distance, speed, calories) ==
    [training_type |-> training_type, duration |-> duration,
     distance |-> distance, speed |-> speed, calories |-> calories]

\* what show_training_info returns or raises: the three getters are called in
\* turn and the first exception ends the call
show_training_info_out(self) ==
    LET training_type == Training_str(self.cls)
        distance == get_distance(self)
        speed == get_mean_speed(self)
        calories == get_spent_calories(self)
    IN  IF distance.exc # "None" THEN distance
        ELSE IF speed.exc # "None" THEN speed
        ELSE IF calories.exc # "None" THEN calories
        ELSE Return(InfoMessage_init(training_type, self.duration,
                                     distance.val, speed.val, calories.val))

\* a summary that keeps the distance it computed in the action field
show_training_info_caching(self) ==
    LET out == show_training_info_out(self)
    IN  [out |-> out,
         self |-> IF out.exc = "None" THEN [self EXCEPT !.action = out.val.distance]
                  ELSE self]

\* the outcome of show_training_info together with the object it leaves
\* behind: no statement of the method assigns to self
show_training_info(self) == [out |-> show_training_info_out(self), self |-> self]

(* ----------------------------- InfoMessage ----------------------------- *)

\* the decimal digits of a natural number, as code points
RECURSIVE Digits(_)
Digits(i) == IF i < 10 THEN <<48 + i>> ELSE Append(Digits(i \div 10), 48 + (i % 10))

\* format(v, '.3f'): the sign, then the magnitude rounded to thousandths
\* (ties to even), with exactly three digits after the point
Format3f(v) ==
    LET p == Abs(v.n) * 1000
        fl == p \div v.d
        rem == p % v.d
        k == IF 2 * rem > v.d THEN fl + 1
             ELSE IF 2 * rem = v.d THEN fl + (fl % 2)
             ELSE fl
        frac == k % 1000
    IN  (IF v.n < 0 THEN <<45>> ELSE <<>>)
        \o Digits(k \div 1000) \o <<46>>
        \o <<48 + (frac \div 100), 48 + ((frac \div 10) % 10), 48 + (frac % 10)>>

\* the code points of the str each class's __str__ returns
Encode(str) ==
    CASE str = "Running" -> <<82, 117, 110, 110, 105, 110, 103>>
      [] str = "SportsWalking" ->
            <<83, 112, 111, 114, 116, 115, 87, 97, 108, 107, 105, 110, 103>>
      [] str = "Swimming" -> <<83, 119, 105, 109, 109, 105, 110, 103>>
      [] OTHER -> <<60, 84, 114, 97, 105, 110, 105, 110, 103, 32, 111, 98, 106,
                    101, 99, 116, 62>>

\* the literal pieces of the f-string of get_message, as code points
LitType == <<1058, 1080, 1087, 32, 1090, 1088, 1077, 1085, 1080, 1088, 1086,
             1074, 1082, 1080, 58, 32>>
LitDuration == <<59, 32, 1044, 1083, 1080, 1090, 1077, 1083, 1100, 1085, 1086,
                 1089, 1090, 1100, 58, 32>>
LitDistance == <<32, 1095, 46, 59, 32, 1044, 1080, 1089, 1090, 1072, 1085, 1094,
                 1080, 1103, 58, 32>>
LitSpeed == <<32, 1082, 1084, 59, 32, 1057, 1088, 46, 32, 1089, 1082, 1086, 1088,
              1086, 1089, 1090, 1100, 58, 32>>
LitCalories == <<32, 1082, 1084, 47, 1095, 59, 32, 1055, 1086, 1090, 1088, 1072,
                 1095, 1077, 1085, 1086, 32, 1082, 1082, 1072, 1083, 58, 32>>
LitEnd == <<46>>

\* the message with distance and speed in each other's place
get_message_swapped(self) ==
    LitType \o Encode(self.training_type)
    \o LitDuration \o Format3f(self.duration)
    \o LitDistance \o Format3f(self.speed)
    \o LitSpeed \o Format3f(self.distance)
    \o LitCalories \o Format3f(self.calories)
    \o LitEnd

get_message(self) ==
    LitType \o Encode(self.training_type)
    \o LitDuration \o Format3f(self.duration)
    \o LitDistance \o Format3f(self.distance)
    \o LitSpeed \o Format3f(self.speed)
    \o LitCalories \o Format3f(self.calories)
    \o LitEnd

(* ----------------------------- read_package ---------------------------- *)

dict_workout == [SWM |-> "Swimming", RUN |-> "Running", WLK |-> "SportsWalking"]

\* a lookup that falls back to Running, as dict_workout.get(code, Running) would
read_package_default(wt, d) ==
    Construct(IF wt \in DOMAIN dict_workout THEN dict_workout[wt] ELSE "Running", d)

\* the subscription dict_workout[workout_type] is evaluated before the call
read_package(wt, d) ==
    IF wt \notin DOMAIN dict_workout THEN RaiseKeyError(wt)
    ELSE Construct(dict_workout[wt], d)

(* ------------------------------- inputs -------------------------------- *)

WorkoutTypes == {"SWM", "RUN", "WLK", "XYZ"}

\* the values tried at each position of an argument list
ArgValues(i) ==
    CASE i = 1 -> {Num(0), Num(720), Num(9000), Num(15000), Num(60000), NonNumeric}
      [] i = 2 -> {Num(0), Num(1), Num(13), Rat(1, 2), NonNumeric}
      [] i = 3 -> {Num(75), Num(80), NonNumeric}
      [] i = 4 -> {Num(0), Num(2), Num(25), Num(180), NonNumeric}
      [] i = 5 -> {Num(40), Num(3), NonNumeric}
      [] OTHER -> {Num(1)}

RECURSIVE ArgSeqs(_)
ArgSeqs(k) ==
    IF k = 0 THEN {<<>>}
    ELSE {Append(s, v) : s \in ArgSeqs(k - 1), v \in ArgValues(k)}

PackageData == UNION {ArgSeqs(k) : k \in 0..MaxArgs}

\* the (workout_type, data) pairs fed to read_package
packages ==
    (WorkoutTypes \X PackageData) \cup {<<"XYZ", <<Num(1), Num(2), Num(3)>>>>}

(* ---------------------------- state machine ---------------------------- *)

NoRet == [op |-> "none"]

Init ==
    /\ pc = "idle"
    /\ call = "none"
    /\ workout_type = ""
    /\ data = <<>>
    /\ training = None
    /\ ret = NoRet
    /\ info = NoInfo
    /\ message = <<>>
    /\ error = NoError
    /\ printed = 0
    /\ shows = 0

ErrorOf(r) == [type |-> r.exc, arg |-> r.arg]

\* training = read_package(workout_type, data), for one of the packages
ReadPackage ==
    /\ pc = "idle"
    /\ \E p \in packages :
          LET r == read_package(p[1], p[2])
          IN  /\ call' = "read_package"
              /\ workout_type' = p[1]
              /\ data' = p[2]
              /\ training' = IF r.exc = "None" THEN r.val ELSE None
              /\ error' = IF r.exc = "None" THEN NoError ELSE ErrorOf(r)
              /\ pc' = IF r.exc = "None" THEN "constructed" ELSE "failed"
    /\ UNCHANGED <<ret, info, message, printed, shows>>

\* training = Training(action, duration, weight): the base class, directly
ConstructTraining ==
    /\ pc = "idle"
    /\ \E d \in ArgSeqs(3) :
          LET r == Construct("Training", d)
          IN  /\ call' = "Training"
              /\ workout_type' = ""
              /\ data' = d
              /\ training' = IF r.exc = "None" THEN r.val ELSE None
              /\ error' = IF r.exc = "None" THEN NoError ELSE ErrorOf(r)
              /\ pc' = IF r.exc = "None" THEN "constructed" ELSE "failed"
    /\ UNCHANGED <<ret, info, message, printed, shows>>

\* a direct call of one of the three getters on the constructed object
CallGetter(op, r) ==
    /\ pc = "constructed"
    /\ ret = NoRet
    /\ ret' = [op |-> op, exc |-> r.exc, val |-> r.val]
    /\ error' = IF r.exc = "None" THEN NoError ELSE ErrorOf(r)
    /\ pc' = IF r.exc = "None" THEN "constructed" ELSE "failed"
    /\ UNCHANGED <<call, workout_type, data, training, info, message, printed,
                    shows>>

GetDistance == CallGetter("get_distance", get_distance(training))

GetMeanSpeed == CallGetter("get_mean_speed", get_mean_speed(training))

GetSpentCalories == CallGetter("get_spent_calories", get_spent_calories(training))

\* info = training.show_training_info(), a first or a repeated time
ShowTrainingInfo ==
    LET r == show_training_info(training)
    IN  /\ pc \in {"constructed", "shown"}
        /\ shows < MaxShows
        /\ shows' = shows + 1
        /\ training' = r.self
        /\ info' = IF r.out.exc = "None" THEN r.out.val ELSE info
        /\ error' = IF r.out.exc = "None" THEN NoError ELSE ErrorOf(r.out)
        /\ pc' = IF r.out.exc = "None" THEN "shown" ELSE "failed"
        /\ UNCHANGED <<call, workout_type, data, ret, message, printed>>

\* print(info.get_message())
GetMessage ==
    /\ pc = "shown"
    /\ message' = get_message(info)
    /\ printed' = printed + 1
    /\ pc' = "printed"
    /\ UNCHANGED <<call, workout_type, data, training, ret, info, error, shows>>

\* the loop over packages moves on to the next record
NextRecord ==
    /\ pc = "printed"
    /\ printed < MaxRecords
    /\ pc' = "idle"
    /\ call' = "none"
    /\ workout_type' = ""
    /\ data' = <<>>
    /\ training' = None
    /\ ret' = NoRet
    /\ info' = NoInfo
    /\ message' = <<>>
    /\ error' = NoError
    /\ shows' = 0
    /\ UNCHANGED printed

Next ==
    \/ ReadPackage
    \/ ConstructTraining
    \/ GetDistance
    \/ GetMeanSpeed
    \/ GetSpentCalories
    \/ ShowTrainingInfo
    \/ GetMessage
    \/ NextRecord

Spec == Init /\ [][Next]_vars

(* ----------------------------- properties ------------------------------ *)

KnownCodes == {"SWM", "RUN", "WLK"}

\* the order of two numbers
Less(a, b) == a.n * b.d < b.n * a.d
Leq(a, b) == a.n * b.d <= b.n * a.d

\* C1: read_package with a code outside {SWM, RUN, WLK} fails with a KeyError
\* that carries the offending code; no Training object is constructed (none
\* is returned, none is summarised) and no variant serves as a default
C1_UnknownCodeFails ==
    (call = "read_package" /\ workout_type \notin KnownCodes) =>
        /\ pc = "failed"
        /\ error = [type |-> "KeyError", arg |-> workout_type]
        /\ training = None
        /\ info = NoInfo

C1_Witness ==
    /\ call = "read_package"
    /\ workout_type = "XYZ"
    /\ data = <<Num(1), Num(2), Num(3)>>
    /\ error.type = "KeyError"

HasNonNumeric(d) == \E i \in 1..Len(d) : ~IsNum(d[i])

\* the number of arguments each recognized code's variant takes
ExpectedArity(wt) ==
    CASE wt = "RUN" -> 3
      [] wt = "WLK" -> 4
      [] wt = "SWM" -> 5

\* C2 as stated: read_package with a recognized code and an argument list of
\* the wrong arity or holding a non-numeric value fails at construction with
\* a TypeError and never returns a constructed Training object
C2_Original ==
    (/\ call = "read_package"
     /\ workout_type \in KnownCodes
     /\ (Len(data) # ExpectedArity(workout_type) \/ HasNonNumeric(data))) =>
        /\ training = None
        /\ pc = "failed"
        /\ error.type = "TypeError"

\* C2 amended: with a recognized code, an argument list of the wrong arity
\* fails at construction with a TypeError and no Training object is returned;
\* a list of the right arity is accepted whatever its values are, and a
\* non-numeric value is stored in the constructed object unvalidated
C2_WrongArityFails ==
    (call = "read_package" /\ workout_type \in KnownCodes) =>
        IF Len(data) # ExpectedArity(workout_type)
        THEN /\ training = None
             /\ pc = "failed"
             /\ error = [type |-> "TypeError", arg |-> ""]
             /\ info = NoInfo
        ELSE /\ training # None
             /\ training.action = data[1]
             /\ training.duration = data[2]
             /\ training.weight = data[3]

C2_Witness ==
    /\ call = "read_package"
    /\ workout_type = "RUN"
    /\ data = <<Num(15000), Num(1), Num(75), Num(180)>>
    /\ pc = "failed"
    /\ error.type = "TypeError"

\* C3: get_spent_calories on an instance of the base Training class fails
\* with an exception naming the class and never returns a calorie value, so
\* show_training_info on a base Training never yields an InfoMessage
C3_BaseCaloriesFail ==
    (call = "Training" /\ training # None) =>
        /\ (ret # NoRet /\ ret.op = "get_spent_calories") =>
               ret.exc = "NotImplementedError"
        /\ info = NoInfo

Shown == pc \in {"shown", "printed"}

RunExample ==
    /\ call = "read_package"
    /\ workout_type = "RUN"
    /\ data = <<Num(15000), Num(1), Num(75)>>

\* ((18 * 9.75 - 20) * 75 / 1000) * 1 * 60, which is 699.75
RunExampleCalories ==
    Mul(Mul(TrueDiv(Mul(Sub(Mul(Num(18), Rat(975, 100)), Num(20)), Num(75)),
                    Num(1000)),
            Num(1)),
        Num(60))

\* |a - b| <= tol
Near(a, b, tol) == Leq(Sub(a, b), tol) /\ Leq(Sub(b, a), tol)

\* C4 as stated: for read_package('RUN', [15000, 1, 75]) the summary has kind
\* Running, distance 9.75, speed 9.75 and calories of approximately 657.0
C4_Original ==
    (RunExample /\ Shown) =>
        /\ info.training_type = "Running"
        /\ info.distance = Rat(975, 100)
        /\ info.speed = Rat(975, 100)
        /\ Near(info.calories, Num(657), Num(1))

\* C4 amended: for read_package('RUN', [15000, 1, 75]) the summary has kind
\* Running, distance 9.75, speed 9.75 and calories equal to
\* ((18 * 9.75 - 20) * 75 / 1000) * 1 * 60, which is 699.75
C4_RunExample ==
    (RunExample /\ Shown) =>
        /\ info.training_type = "Running"
        /\ info.distance = Rat(975, 100)
        /\ info.speed = Rat(975, 100)
        /\ info.calories = RunExampleCalories
        /\ info.calories = Rat(69975, 100)

C4_Witness == RunExample /\ pc = "shown" /\ info.training_type = "Running"

SwimExample ==
    /\ call = "read_package"
    /\ workout_type = "SWM"
    /\ data = <<Num(720), Num(1), Num(80), Num(25), Num(40)>>

\* C5 as stated: for read_package('SWM', [720, 1, 80, 25, 40]) the summary
\* has kind Swimming, distance of approximately 0.468, speed 1.0 and
\* calories 336.0
C5_Original ==
    (SwimExample /\ Shown) =>
        /\ info.training_type = "Swimming"
        /\ Near(info.distance, Rat(468, 1000), Rat(1, 1000))
        /\ info.speed = Num(1)
        /\ info.calories = Num(336)

\* C5 amended: for read_package('SWM', [720, 1, 80, 25, 40]) the summary has
\* kind Swimming, distance 720 * 1.38 / 1000 = 0.9936, speed
\* 25 * 40 / 1000 / 1 = 1.0 and calories (1.0 + 1.1) * 2 * 80 = 336.0
C5_SwimExample ==
    (SwimExample /\ Shown) =>
        /\ info.training_type = "Swimming"
        /\ info.distance = Rat(9936, 10000)
        /\ info.speed = Num(1)
        /\ info.calories = Num(336)

C5_Witness == SwimExample /\ pc = "shown" /\ info.training_type = "Swimming"

NumericValues(i) == {v \in ArgValues(i) : IsNum(v)}

\* C6: the speed get_mean_speed returns for a Swimming object is computed
\* from numeric pool fields as length_pool * count_pool / 1000 / duration,
\* and it is the speed of every Swimming object that differs from it in
\* action and weight only
C6_SwimSpeedIndependent ==
    (/\ training # None
     /\ training.cls = "Swimming"
     /\ ret # NoRet
     /\ ret.op = "get_mean_speed"
     /\ ret.exc = "None") =>
        /\ IsNum(training.length_pool) /\ IsNum(training.count_pool)
        /\ Mul(Mul(ret.val, training.duration), Num(1000))
               = Mul(training.length_pool, training.count_pool)
        /\ \A a \in NumericValues(1), w \in NumericValues(3) :
               LET other == get_mean_speed([training EXCEPT !.action = a,
                                                            !.weight = w])
               IN  other.exc = "None" /\ other.val = ret.val

C6_Witness ==
    /\ training # None
    /\ training.cls = "Swimming"
    /\ ret # NoRet
    /\ ret.op = "get_mean_speed"
    /\ ret.exc = "None"
    /\ training.action = Num(9000)
    /\ ret.val = Rat(75, 1000)

\* the middle term recovered from a SportsWalking calorie value:
\* (calories / (duration * 60) - 0.035 * weight) / (0.029 * weight)
MiddleTerm(self, calories) ==
    TrueDiv(Sub(TrueDiv(calories, Mul(self.duration, Num(60))),
                Mul(Rat(35, 1000), self.weight)),
            Mul(Rat(29, 1000), self.weight))

WalkCalories ==
    /\ training # None
    /\ training.cls = "SportsWalking"
    /\ ret # NoRet
    /\ ret.op = "get_spent_calories"
    /\ ret.exc = "None"

\* C7: the calories of a SportsWalking object (height > 0, duration > 0) are
\* (0.035 * weight + k * 0.029 * weight) * duration * 60 with k the integer
\* floor of mean_speed^2 / height: k is 4 for mean speed 3.0 and height 2,
\* and 0 whenever mean_speed^2 < height
C7_WalkFloorDivision ==
    (WalkCalories /\ Less(Num(0), training.height)) =>
        LET speed == TrueDiv(TrueDiv(Mul(training.action, Rat(65, 100)), Num(1000)),
                             training.duration)
            sq == Mul(speed, speed)
            k == MiddleTerm(training, ret.val)
        IN  /\ k.d = 1
            /\ Leq(Mul(k, training.height), sq)
            /\ Less(sq, Mul(Add(k, Num(1)), training.height))
            /\ (speed = Num(3) /\ training.height = Num(2)) => k = Num(4)
            /\ Less(sq, training.height) =>
                   ret.val = Mul(Mul(Mul(Rat(35, 1000), training.weight),
                                     training.duration),
                                 Num(60))

C7_Witness ==
    /\ WalkCalories
    /\ data = <<Num(60000), Num(13), Num(75), Num(2)>>
    /\ MiddleTerm(training, ret.val) = Num(4)

\* the variant and the display name each recognized code stands for
ExpectedKind(wt) ==
    CASE wt = "RUN" -> "Running"
      [] wt = "WLK" -> "SportsWalking"
      [] wt = "SWM" -> "Swimming"

\* C8: for each recognized code read_package returns an instance of exactly
\* the matching variant whose fields hold the arguments in positional order
\* (action, duration, weight, then height for WLK, or length_pool and
\* count_pool for SWM), and show_training_info reports its display name
C8_VariantAndFields ==
    (call = "read_package" /\ workout_type \in KnownCodes /\ training # None) =>
        /\ training.cls = ExpectedKind(workout_type)
        /\ training.action = data[1]
        /\ training.duration = data[2]
        /\ training.weight = data[3]
        /\ workout_type = "RUN" =>
               DOMAIN training = {"cls", "action", "duration", "weight"}
        /\ workout_type = "WLK" =>
               /\ DOMAIN training = {"cls", "action", "duration", "weight", "height"}
               /\ training.height = data[4]
        /\ workout_type = "SWM" =>
               /\ DOMAIN training = {"cls", "action", "duration", "weight",
                                     "length_pool", "count_pool"}
               /\ training.length_pool = data[4]
               /\ training.count_pool = data[5]
        /\ Shown => info.training_type = ExpectedKind(workout_type)

C8_Witness ==
    /\ call = "read_package"
    /\ workout_type = "WLK"
    /\ data = <<Num(9000), Num(1), Num(75), Num(180)>>
    /\ pc = "shown"
    /\ info.training_type = "SportsWalking"
    /\ info.distance = Rat(585, 100)
    /\ info.speed = Rat(585, 100)

\* C9: a call of show_training_info that returns leaves every field of the
\* Training object unchanged, returns an InfoMessage whose duration is the
\* object's and whose distance, speed and calories are what get_distance,
\* get_mean_speed and get_spent_calories return on it, and a repeated call
\* returns an equal InfoMessage
C9_ShowIsPure ==
    [][(ShowTrainingInfo /\ pc' = "shown") =>
          /\ training' = training
          /\ info'.duration = training.duration
          /\ info'.distance = get_distance(training).val
          /\ info'.speed = get_mean_speed(training).val
          /\ info'.calories = get_spent_calories(training).val
          /\ pc = "shown" => info' = info]_vars

C9_Witness ==
    /\ pc = "shown"
    /\ shows = 2
    /\ training # None
    /\ training.cls = "Swimming"
    /\ info.calories = Num(336)

\* the number nearest to 1000 * |v|, a tie going to the even one
Thousandths(v) ==
    LET q == Mul(Num(1000), Rat(Abs(v.n), v.d))
        up == (2 * q.n + q.d) \div (2 * q.d)
    IN  IF 2 * q.n + q.d = up * 2 * q.d /\ up % 2 = 1 THEN up - 1 ELSE up

RECURSIVE Decimal(_)
Decimal(i) == IF i < 10 THEN <<48 + i>> ELSE Decimal(i \div 10) \o <<48 + (i % 10)>>

\* v written with a point and three decimals
ThreeDecimals(v) ==
    LET t == Thousandths(v)
        f == t % 1000
    IN  (IF v.n < 0 THEN <<45>> ELSE <<>>)
        \o Decimal(t \div 1000) \o <<46>>
        \o (IF f < 10 THEN <<48, 48>> ELSE IF f < 100 THEN <<48>> ELSE <<>>)
        \o Decimal(f)

KindText(kind) ==
    CASE kind = "Running" -> <<82, 117, 110, 110, 105, 110, 103>>
      [] kind = "SportsWalking" ->
            <<83, 112, 111, 114, 116, 115, 87, 97, 108, 107, 105, 110, 103>>
      [] kind = "Swimming" -> <<83, 119, 105, 109, 109, 105, 110, 103>>

\* the template, its five fields in the order kind, duration, distance,
\* speed, calories
Template(kind, duration, distance, speed, calories) ==
    <<1058, 1080, 1087, 32, 1090, 1088, 1077, 1085, 1080, 1088, 1086, 1074,
      1082, 1080, 58, 32>>
    \o kind \o <<59, 32>>
    \o <<1044, 1083, 1080, 1090, 1077, 1083, 1100, 1085, 1086, 1089, 1090,
         1100, 58, 32>>
    \o duration \o <<32, 1095, 46>> \o <<59, 32>>
    \o <<1044, 1080, 1089, 1090, 1072, 1085, 1094, 1080, 1103, 58, 32>>
    \o distance \o <<32, 1082, 1084>> \o <<59, 32>>
    \o <<1057, 1088, 46, 32, 1089, 1082, 1086, 1088, 1086, 1089, 1090, 1100,
         58, 32>>
    \o speed \o <<32, 1082, 1084, 47, 1095>> \o <<59, 32>>
    \o <<1055, 1086, 1090, 1088, 1072, 1095, 1077, 1085, 1086, 32, 1082, 1082,
         1072, 1083, 58, 32>>
    \o calories \o <<46>>

\* the message the program prints for read_package('RUN', [15000, 1, 75])
RunExampleMessage ==
    <<1058, 1080, 1087, 32, 1090, 1088, 1077, 1085, 1080, 1088, 1086, 1074,
      1082, 1080, 58, 32, 82, 117, 110, 110, 105, 110, 103, 59, 32, 1044,
      1083, 1080, 1090, 1077, 1083, 1100, 1085, 1086, 1089, 1090, 1100, 58,
      32, 49, 46, 48, 48, 48, 32, 1095, 46, 59, 32, 1044, 1080, 1089, 1090,
      1072, 1085, 1094, 1080, 1103, 58, 32, 57, 46, 55, 53, 48, 32, 1082,
      1084, 59, 32, 1057, 1088, 46, 32, 1089, 1082, 1086, 1088, 1086, 1089,
      1090, 1100, 58, 32, 57, 46, 55, 53, 48, 32, 1082, 1084, 47, 1095, 59,
      32, 1055, 1086, 1090, 1088, 1072, 1095, 1077, 1085, 1086, 32, 1082,
      1082, 1072, 1083, 58, 32, 54, 57, 57, 46, 55, 53, 48, 46>>

\* C10: get_message returns the template with the fields in the order kind,
\* duration, distance, speed, calories, each number with exactly three
\* decimals, and the same punctuation and unit labels; for the Running
\* example it is the template with the example's values
C10_MessageTemplate ==
    (pc = "printed" /\ call = "read_package") =>
        /\ message = Template(KindText(info.training_type),
                              ThreeDecimals(info.duration),
                              ThreeDecimals(info.distance),
                              ThreeDecimals(info.speed),
                              ThreeDecimals(info.calories))
        /\ RunExample => message = RunExampleMessage

C10_Witness == pc = "printed" /\ RunExample /\ message = RunExampleMessage

====
